---- MODULE Spec2Model ----
(***************************************************************************)
(* Model of the Hardcover progress-sync client                             *)
(* (cps/services/hardcover.py, class HardcoverClient).                     *)
(*                                                                         *)
(* The remote Hardcover account is the tables user_books and               *)
(* user_book_reads; the catalogue (books, editions) is fixed.  A call of   *)
(* update_reading_progress is split at its remote requests: every action   *)
(* receives the response of the pending request and runs the code up to    *)
(* the next request, the return or the raise.  Python dicts are functions  *)
(* whose DOMAIN is the set of keys present, so that dict.get(k, default)   *)
(* tells an absent key from a key holding None.                            *)
(***************************************************************************)
EXTENDS Integers, Sequences, FiniteSets, TLC

VARIABLES
    user_books,        \* remote: the user's user_books rows, id = index
    user_book_reads,   \* remote: the user_book_reads rows, id = index
    today,             \* the day datetime.now() falls on in the current call
    calls,             \* number of update_reading_progress calls made
    identifiers,       \* argument of the current call
    progress_percent,  \* argument of the current call
    pc,                \* pending request of the current call, or idle/done
    caller,            \* function that called parse_identifiers
    parsed,            \* parse_identifiers: its local dict `identifiers`
    ids,               \* update_reading_progress: ids
    fetched,           \* update_reading_progress: book as get_user_book returned it
    book,              \* update_reading_progress: book
    variables,         \* update_reading_progress: variables (line 151)
    log,               \* requests sent by the current call, in order
    outcome,           \* "running", "returned" or the exception raised
    failed,            \* position in log of the request that failed, or 0
    resolved,          \* parse_identifiers called directly: input and output
                       \* of the call before
    before,            \* update_reading_progress called again for the same
                       \* book: arguments, day and requests of the call
                       \* before and the account as that call left it
    now,               \* time.time(), in seconds
    ticks,             \* number of times the clock has advanced
    author_calls,      \* number of get_author_info and
                       \* get_other_author_books calls made
    AUTHORS_CACHE,     \* _AUTHORS_CACHE: author slug -> entry
    AUTHORS_BOOKS_CACHE, \* _AUTHORS_BOOKS_CACHE: author slug -> entry
    threads,           \* per thread, its call of get_author_info or
                       \* get_other_author_books in progress
    lookups,           \* per author slug: time of the first get_author_info
                       \* call, outcome of its lookup, GetAuthorInfo requests
                       \* sent within _CACHE_TIMEOUT of it
    active,            \* Hardcover.active (Metadata.set_status)
    deactivated,       \* a search has found no token
    HEADERS,           \* Hardcover.HEADERS, shared by the instances
    config_token,      \* config.config_hardcover_api_token
    env_token,         \* getenv("HARDCOVER_TOKEN")
    search_calls,      \* number of search calls made
    searches           \* per thread, its call of search in progress

remote == <<user_books, user_book_reads>>
args == <<identifiers, progress_percent>>
locals == <<pc, caller, parsed, ids, fetched, book, variables, log, outcome,
            failed>>
authors == <<now, ticks, author_calls, AUTHORS_CACHE, AUTHORS_BOOKS_CACHE,
             threads, lookups>>
provider == <<active, deactivated, HEADERS, config_token, env_token,
              search_calls, searches>>
others == <<resolved, before, authors, provider>>
vars == <<user_books, user_book_reads, today, calls, identifiers,
          progress_percent, pc, caller, parsed, ids, fetched, book, variables,
          log, outcome, failed, others>>

----------------------------------------------------------------------------
(* Bounds *)

MaxCalls == 1
MaxDay == 1
MaxUserBooks == 2
MaxReads == 2
MaxParses == 2
MaxThreads == 2
MaxAuthorCalls == 3
MaxTicks == 2
MaxSearches == 2
MaxRepeats == 1

----------------------------------------------------------------------------
(* Python values *)

\* None where a number is expected (ids, pages, dates, status)
None == -1

\* None where a dict is expected
NoneDict == [none |-> TRUE]

\* {} : the dict with no key
EmptyDict == <<>>

\* d.get(k, default)
Get(d, k, default) == IF k \in DOMAIN d THEN d[k] ELSE default

\* int(v): TypeError on None
IntFails(v) == v = None

\* str.startswith("hardcover") over the identifier types of the model
StartsWithHardcover(t) == t \in {"hardcover", "hardcover-id", "hardcover-edition"}

\* the ties of pages * (p / 100) that the double product misses from below
\* and from above (all of them for pages <= 200, p <= 100)
FloatBelowTie ==
    {<<25, 58>>, <<45, 70>>, <<50, 29>>, <<50, 57>>, <<75, 82>>, <<85, 70>>,
     <<90, 35>>, <<150, 41>>, <<150, 57>>, <<150, 69>>, <<165, 70>>,
     <<170, 35>>, <<175, 70>>}

FloatAboveTie ==
    {<<25, 14>>, <<50, 7>>, <<50, 55>>, <<75, 14>>, <<75, 34>>, <<90, 55>>,
     <<110, 55>>, <<150, 7>>, <<150, 17>>, <<150, 81>>, <<170, 55>>,
     <<175, 14>>, <<175, 34>>, <<190, 55>>}

\* PagesRead with int() in the place of round()
PagesRead_truncated(pages, p) == (pages * p) \div 100

\* round(pages * (progress_percent / 100)): Python rounds the double product
\* to the nearest integer, an exact half to the even one
PagesRead(pages, p) ==
    LET q == (pages * p) \div 100
        r == (pages * p) % 100
    IN  IF r < 50 THEN q
        ELSE IF r > 50 THEN q + 1
        ELSE IF <<pages, p>> \in FloatBelowTie THEN q
        ELSE IF <<pages, p>> \in FloatAboveTie THEN q + 1
        ELSE IF q % 2 = 0 THEN q ELSE q + 1

----------------------------------------------------------------------------
(* The remote catalogue *)

ISBN13a == "9780000000011"
ISBN13x == "9780000000099"
ISBN10 == "0000000011"

Books == << [id |-> 1, slug |-> "dune"] >>

Editions ==
    << [id |-> 11, book_id |-> 1, isbn_13 |-> ISBN13a, pages |-> 200],
       [id |-> 12, book_id |-> 1, isbn_13 |-> "9780000000012", pages |-> 45],
       [id |-> 13, book_id |-> 1, isbn_13 |-> "9780000000013", pages |-> 0],
       [id |-> 14, book_id |-> 1, isbn_13 |-> "9780000000014", pages |-> None] >>

EditionIds == {Editions[i].id : i \in DOMAIN Editions}

EditionRow(e) == Editions[CHOOSE i \in DOMAIN Editions : Editions[i].id = e]

BookIds == {Books[i].id : i \in DOMAIN Books}

BookSlug(b) == Books[CHOOSE i \in DOMAIN Books : Books[i].id = b].slug

\* subsequence of s at the indices in idx, in order
RECURSIVE SelectIdx(_, _, _)
SelectIdx(s, idx, i) ==
    IF i > Len(s) THEN <<>>
    ELSE (IF i \in idx THEN <<s[i]>> ELSE <<>>) \o SelectIdx(s, idx, i + 1)

----------------------------------------------------------------------------
(* The remote account: what the GraphQL server answers *)

\* a user_book_reads row as the fragment selects it
ReadJson(rd, j) ==
    [id |-> j, started_at |-> rd[j].started_at,
     finished_at |-> rd[j].finished_at, edition_id |-> rd[j].edition_id,
     progress_pages |-> rd[j].progress_pages]

\* order_by: {started_at: desc}: nulls first, then the later date; rows with
\* equal dates in id order
ReadBefore(rd, a, b) ==
    LET sa == rd[a].started_at
        sb == rd[b].started_at
    IN  \/ sa = None /\ sb # None
        \/ sa # None /\ sb # None /\ sa > sb
        \/ sa = sb /\ a < b

RECURSIVE SortReads(_, _)
SortReads(rd, idx) ==
    IF idx = {} THEN <<>>
    ELSE LET f == CHOOSE a \in idx : \A b \in idx \ {a} : ReadBefore(rd, a, b)
         IN  <<ReadJson(rd, f)>> \o SortReads(rd, idx \ {f})

\* user_book_reads(order_by: {started_at: desc},
\*                 where: {finished_at: {_is_null: true}})
OpenReadIds(rd, i) ==
    {j \in DOMAIN rd : rd[j].user_book_id = i /\ rd[j].finished_at = None}

\* fragment userBookFragment on user_books
UserBookJson(ub, rd, i) ==
    [id |-> i, status_id |-> ub[i].status_id, book_id |-> ub[i].book_id,
     edition |-> IF ub[i].edition_id = None THEN NoneDict
                 ELSE [id |-> ub[i].edition_id,
                       pages |-> EditionRow(ub[i].edition_id).pages],
     user_book_reads |-> SortReads(rd, OpenReadIds(rd, i))]

\* me { user_books(where: ...) }: the ids of the matching rows
MatchingUserBooks(ub, v) ==
    {i \in DOMAIN ub :
        \/ v.by = "edition_id" /\ ub[i].edition_id = v.query
        \/ v.by = "book_id" /\ ub[i].book_id = v.query
        \/ v.by = "slug" /\ BookSlug(ub[i].book_id) = v.slug}

\* next(iter(response.get("me")[0].get("user_books")), None)
FirstUserBook(ub, rd, v) ==
    LET m == MatchingUserBooks(ub, v)
    IN  IF m = {} THEN NoneDict
        ELSE UserBookJson(ub, rd, CHOOSE i \in m : \A k \in m : i <= k)

\* books(where: {slug: {_eq: $slug}}) { id editions(where: {isbn_13: ...}) }
BooksResponse(v) ==
    LET m == {i \in DOMAIN Books : Books[i].slug = v.slug}
        eds(b) == {i \in DOMAIN Editions :
                      Editions[i].book_id = b /\ Editions[i].isbn_13 = v.isbn}
        row(i) == IF "isbn" \in DOMAIN v
                  THEN [id |-> Books[i].id,
                        editions |-> [k \in DOMAIN SelectIdx(Editions, eds(Books[i].id), 1)
                                        |-> [id |-> SelectIdx(Editions, eds(Books[i].id), 1)[k].id]]]
                  ELSE [id |-> Books[i].id]
    IN  [k \in DOMAIN SelectIdx(Books, m, 1) |->
            row(CHOOSE i \in m : Books[i] = SelectIdx(Books, m, 1)[k])]

----------------------------------------------------------------------------
(* The client: code between two requests, as a function of the call's     *)
(* configuration c = [pc, caller, parsed, ids, fetched, book, variables,  *)
(* log, outcome, failed]                                                    *)

\* return, or an exception leaving update_reading_progress
Stop(c, how) == [c EXCEPT !.pc = "done", !.outcome = how]

\* execute returning normally from a failed request
execute_error_swallowed(c) == Stop([c EXCEPT !.failed = Len(c.log)], "returned")

\* execute, lines 366-372: the response of the pending request is a non-2xx
\* status or carries "errors"
execute_error(c) == Stop([c EXCEPT !.failed = Len(c.log)], "Exception")

\* execute(query, variables): the request is sent, the response is pending
Request(c, site, op, v) ==
    [c EXCEPT !.pc = site, !.log = Append(@, [op |-> op, variables |-> v])]

\* the filter of lines 234-237 keeping the keys "hardcover" and "isbn" alone
FilterIdentifiers_exact(idents) ==
    IF idents.isdict
    THEN [t \in {k \in DOMAIN idents.val : k \in {"hardcover", "isbn"}}
            |-> idents.val[t]]
    ELSE LET items == idents.val
             keep == {i \in DOMAIN items : items[i].type \in {"hardcover", "isbn"}}
             last(t) == CHOOSE i \in keep :
                           /\ items[i].type = t
                           /\ \A j \in keep : items[j].type = t => j <= i
         IN  [t \in {items[i].type : i \in keep} |-> items[last(t)].val]

\* parse_identifiers, lines 234-237
FilterIdentifiers(idents) ==
    IF idents.isdict
    THEN [t \in {k \in DOMAIN idents.val : StartsWithHardcover(k) \/ k = "isbn"}
            |-> idents.val[t]]
    ELSE LET items == idents.val
             keep == {i \in DOMAIN items :
                         StartsWithHardcover(items[i].type) \/ items[i].type = "isbn"}
             last(t) == CHOOSE i \in keep :
                           /\ items[i].type = t
                           /\ \A j \in keep : items[j].type = t => j <= i
         IN  [t \in {items[i].type : i \in keep} |-> items[last(t)].val]

\* get_book_id_variables never asking for the edition of the isbn
get_book_id_variables_slug_only(f) == [slug |-> f["hardcover"]]

\* get_book_id, lines 326-349: the variables of the books query
get_book_id_variables(f) ==
    IF "isbn" \in DOMAIN f /\ f["isbn"] # "" /\ Len(f["isbn"]) = 13
    THEN [slug |-> f["hardcover"], isbn |-> f["isbn"]]
    ELSE [slug |-> f["hardcover"]]

\* get_user_book, lines 77-109: the variables of the user_books query
get_user_book_variables(f) ==
    IF "hardcover-edition" \in DOMAIN f
    THEN [by |-> "edition_id", query |-> f["hardcover-edition"]]
    ELSE IF "hardcover-id" \in DOMAIN f
    THEN [by |-> "book_id", query |-> f["hardcover-id"]]
    ELSE IF "hardcover" \in DOMAIN f
    THEN [by |-> "slug", slug |-> f["hardcover"]]
    ELSE [by |-> "nothing"]

\* add_book, lines 186-203, after its parse_identifiers returned f
add_book_request(c, f, status) ==
    IF IntFails(Get(f, "hardcover-id", None))
    THEN Stop(c, "TypeError")
    ELSE Request(c, "add_book", "insert_user_book",
                 [book_id |-> f["hardcover-id"],
                  edition_id |-> IF Get(f, "hardcover-edition", None) \notin {None, 0}
                                 THEN f["hardcover-edition"] ELSE None,
                  status_id |-> status])

\* update_reading_progress, lines 114-116 and 164-165, after
\* parse_identifiers returned f
after_parse(c, f) ==
    IF DOMAIN f # {}
    THEN Request([c EXCEPT !.ids = f], "get_user_book", "user_books",
                 get_user_book_variables(f))
    ELSE Stop([c EXCEPT !.ids = f], "returned")

\* parse_identifiers returns f to its caller
parse_return(c, f) ==
    IF c.caller = "add_book"
    THEN add_book_request(c, f, 2)
    ELSE IF c.caller = "update_reading_progress"
    THEN after_parse(c, f)
    ELSE Stop([c EXCEPT !.parsed = f], "returned")

\* parse_identifiers without the test of the slug (lines 242-244)
parse_identifiers_always_lookup(c0, idents, from) ==
    LET f == FilterIdentifiers(idents)
        c == [c0 EXCEPT !.caller = from, !.parsed = f]
    IN  IF "hardcover-id" \notin DOMAIN f
        THEN Request(c, "get_book_id", "books", [slug |-> Get(f, "hardcover", "")])
        ELSE parse_return(c, f)

\* parse_identifiers, lines 234-245, up to the get_book_id request
parse_identifiers(c0, idents, from) ==
    LET f == FilterIdentifiers(idents)
        c == [c0 EXCEPT !.caller = from, !.parsed = f]
    IN  IF "hardcover-id" \notin DOMAIN f
        THEN IF Get(f, "hardcover", "") = ""
             THEN parse_return(c, f)
             ELSE Request(c, "get_book_id", "books", get_book_id_variables(f))
        ELSE parse_return(c, f)

\* parse_identifiers, lines 245-251, from the books of the response on
\* (get_book_id, lines 351-358)
get_book_id_return(c, books) ==
    IF books = <<>>
    THEN Stop([c EXCEPT !.failed = Len(c.log)], "ValueError")
    ELSE LET b == books[1]
             editions_list == Get(b, "editions", <<>>)
             edition_id == IF editions_list # <<>> THEN editions_list[1].id ELSE None
             f0 == [t \in DOMAIN c.parsed \cup {"hardcover-id"} |->
                       IF t = "hardcover-id" THEN Get(b, "id", None) ELSE c.parsed[t]]
             f == IF edition_id # None
                  THEN [t \in DOMAIN f0 \cup {"hardcover-edition"} |->
                           IF t = "hardcover-edition" THEN edition_id ELSE f0[t]]
                  ELSE f0
         IN  parse_return([c EXCEPT !.parsed = f], f)

\* add_book(ids, status=2), line 119
add_book(c) == parse_identifiers(c, [isdict |-> TRUE, val |-> c.ids], "add_book")

\* update_read without the change of status of lines 158-160
update_read_without_status(c, v, p) ==
    Request([c EXCEPT !.variables = v], "update_user_book_read",
            "update_user_book_read", v)

\* update_reading_progress, lines 158-161: the mutation of line 140 is sent
\* after change_book_status(book, 3) when the book is finished
update_read(c, v, p) ==
    IF p = 100
    THEN Request([c EXCEPT !.variables = v], "change_book_status_read",
                 "update_user_book",
                 [id |-> Get(c.book, "id", None), status_id |-> 3])
    ELSE Request([c EXCEPT !.variables = v], "update_user_book_read",
                 "update_user_book_read", v)

\* progress_pages inserting a read whether or not the user book has an open
\* one
progress_pages_insert_always(c, p, day) ==
    LET edition == Get(c.book, "edition", EmptyDict)
    IN  IF edition = NoneDict THEN Stop(c, "AttributeError")
        ELSE LET pages == Get(edition, "pages", 0)
             IN  IF pages \in {None, 0} THEN Stop(c, "returned")
                 ELSE IF "user_book_reads" \notin DOMAIN c.book THEN Stop(c, "TypeError")
                 ELSE Request(c, "add_read", "insert_user_book_read",
                              [id |-> c.book["id"],
                               editionId |-> IF edition["id"] \notin {None, 0}
                                             THEN edition["id"] ELSE None,
                               pages |-> PagesRead(pages, p),
                               startedAt |-> day])

\* update_reading_progress, lines 133-163
progress_pages(c, p, day) ==
    LET edition == Get(c.book, "edition", EmptyDict)
    IN  IF edition = NoneDict THEN Stop(c, "AttributeError")
        ELSE LET pages == Get(edition, "pages", 0)
             IN  IF pages \in {None, 0} THEN Stop(c, "returned")
                 ELSE IF "user_book_reads" \notin DOMAIN c.book THEN Stop(c, "TypeError")
                 ELSE LET pages_read == PagesRead(pages, p)
                          reads == c.book["user_book_reads"]
                      IN  IF reads = <<>>
                          THEN \* add_read, lines 224-230
                               Request(c, "add_read", "insert_user_book_read",
                                       [id |-> c.book["id"],
                                        editionId |-> IF edition["id"] \notin {None, 0}
                                                      THEN edition["id"] ELSE None,
                                        pages |-> pages_read,
                                        startedAt |-> day])
                          ELSE LET read == reads[1]
                                   v == [readId |-> read["id"],
                                         pages |-> pages_read,
                                         editionId |-> edition["id"],
                                         startedAt |-> Get(read, "started_at", day),
                                         finishedAt |-> IF p = 100 THEN day ELSE None]
                               IN  update_read(c, v, p)

\* already_read without the test of line 130
already_read_unchecked(c, p, day) == progress_pages(c, p, day)

\* update_reading_progress, lines 129-132 and on
already_read(c, p, day) ==
    IF Get(c.book, "status_id", None) = 3 /\ p = 100
    THEN Stop(c, "returned")
    ELSE progress_pages(c, p, day)

\* have_book moving only a Want-to-Read (1) book to Reading
have_book_from_want_only(c, p, day) ==
    IF c.book = NoneDict THEN Stop(c, "returned")
    ELSE IF Get(c.book, "status_id", None) = 1 /\ p # 100
    THEN Request(c, "change_book_status_reading", "update_user_book",
                 [id |-> Get(c.book, "id", None), status_id |-> 2])
    ELSE already_read(c, p, day)

\* update_reading_progress, lines 121-128 and on
have_book(c, p, day) ==
    IF c.book = NoneDict THEN Stop(c, "returned")
    ELSE IF Get(c.book, "status_id", None) # 2 /\ p # 100
    THEN Request(c, "change_book_status_reading", "update_user_book",
                 [id |-> Get(c.book, "id", None), status_id |-> 2])
    ELSE already_read(c, p, day)

----------------------------------------------------------------------------
(* The author caches (lines 51-53, 253-323)                                *)

\* _CACHE_TIMEOUT, line 52, in seconds
CACHE_TIMEOUT == 167 * 60 * 60

\* the authors of the catalogue, with their contributions ordered by title
Authors ==
    << [slug |-> "frank-herbert", name |-> "Frank Herbert", bio |-> "bio",
        cached_image |-> "img",
        contributions |->
           << [book |-> [title |-> "Dune", slug |-> "dune"]],
              [book |-> [title |-> "Dune Messiah", slug |-> "dune-messiah"]],
              [book |-> [title |-> "Untitled", slug |-> ""]] >>] >>

\* the author arguments: the slug of an author, and a slug of no author
AuthorSlugs == {"frank-herbert", "nobody"}

\* the library_books arguments: slugs of the books of the local library
LibraryBooks == {{}, {"dune"}}

\* authors(where: {slug: {_eq: $author}}), lines 262 and 292
AuthorsResponse(author) == SelectSeq(Authors, LAMBDA a : a.slug = author)

\* what a GetAuthorInfo request can be answered: the rows of the catalogue,
\* or none when the author has left the catalogue since an earlier lookup
AuthorsAnswers(author) == {AuthorsResponse(author), <<>>}

\* GetAuthorInfo selects bio, name, cached_image and slug (lines 263-266)
AuthorInfoJson(a) ==
    [bio |-> a.bio, name |-> a.name, cached_image |-> a.cached_image,
     slug |-> a.slug]

\* the books of the contributions with no regard to library_books
OtherBooks_all(contributions, library_books) ==
    LET bs == [i \in DOMAIN contributions |-> contributions[i].book]
    IN  SelectSeq(bs, LAMBDA b : b.slug # "")

\* get_other_author_books, lines 311-315
OtherBooks(contributions, library_books) ==
    LET bs == [i \in DOMAIN contributions |-> contributions[i].book]
    IN  SelectSeq(bs, LAMBDA b : b.slug # "" /\ b.slug \notin library_books)

Threads == 1..MaxThreads

\* a thread that is in neither function
IdleThread ==
    [pc |-> "idle", fn |-> "none", author |-> "", library_books |-> {},
     cached |-> NoneDict, author_info |-> NoneDict, books |-> <<>>,
     outcome |-> "none", sent |-> 0]

\* d[k] = v
DictSet(d, k, v) == [x \in DOMAIN d \cup {k} |-> IF x = k THEN v ELSE d[x]]

\* a del that leaves the key in place
DictDel_kept(d, k) == d

\* del d[k], for a key d holds
DictDel(d, k) == [x \in DOMAIN d \ {k} |-> d[x]]

\* an entry taken for stale one second early
Fresh_one_second_less(entry, t) == t + 1 < entry.timestamp + CACHE_TIMEOUT

\* lines 256 and 286: the entry is younger than _CACHE_TIMEOUT
Fresh(entry, t) == t < entry.timestamp + CACHE_TIMEOUT

InitAuthors ==
    /\ now = 0
    /\ ticks = 0
    /\ author_calls = 0
    /\ AUTHORS_CACHE = EmptyDict
    /\ AUTHORS_BOOKS_CACHE = EmptyDict
    /\ threads = [t \in Threads |-> IdleThread]
    /\ lookups = [a \in AuthorSlugs |->
                    [start |-> None, first |-> "none", requests |-> 0]]

----------------------------------------------------------------------------
(* The metadata provider (cps/metadata_provider/hardcover.py): JSON values *)
(* are tagged, [t |-> "dict", v |-> keys to values], [t |-> "list", v |->  *)
(* sequence], [t |-> "str", ...], [t |-> "int", ...], [t |-> "null"]       *)

JNull == [t |-> "null"]
JInt(n) == [t |-> "int", v |-> n]
JStr(s) == [t |-> "str", v |-> s]
JList(l) == [t |-> "list", v |-> l]
JDict(d) == [t |-> "dict", v |-> d]
\* a string that is the JSON text of j
JText(j) == [t |-> "str", json |-> j]

\* bool(j)
Truthy(j) ==
    CASE j.t = "null" -> FALSE
      [] j.t = "int" -> j.v # 0
      [] j.t = "str" -> "json" \in DOMAIN j \/ j.v # ""
      [] j.t = "list" -> j.v # <<>>
      [] j.t = "dict" -> DOMAIN j.v # {}

\* _safe_get(data, *keys, default), lines 408-418
RECURSIVE safe_get(_, _, _)
safe_get(data, keys, default) ==
    IF keys = <<>> THEN data
    ELSE IF data.t = "dict" /\ Head(keys) \in DOMAIN data.v
    THEN safe_get(data.v[Head(keys)], Tail(keys), default)
    ELSE default

\* the value of an expression, or the exception it raises
Value(v) == [raised |-> "", val |-> v]
Raise(exc) == [raised |-> exc, val |-> NoneDict]

\* key in j (lines 205, 210)
Contains(j, key) ==
    CASE j.t = "dict" -> Value(key \in DOMAIN j.v)
      [] j.t = "list" -> Value(\E i \in DOMAIN j.v :
                                  /\ j.v[i].t = "str"
                                  /\ "v" \in DOMAIN j.v[i]
                                  /\ j.v[i].v = key)
      [] j.t = "str" -> Value("v" \in DOMAIN j /\ j.v = key)
      [] OTHER -> Raise("TypeError")

\* for x in j (lines 244, 301): the items, a dict giving its keys and a
\* string its characters
Items(j) ==
    CASE j.t = "list" -> Value(j.v)
      [] j.t = "dict" -> Value(IF DOMAIN j.v = {} THEN <<>> ELSE <<JStr("k")>>)
      [] j.t = "str" -> Value(IF Truthy(j) THEN <<JStr("c")>> ELSE <<>>)
      [] OTHER -> Raise("TypeError")

\* j.get(key, default) of a dict, AttributeError of anything else
DictGet(j, key, default) ==
    IF j.t = "dict"
    THEN Value(IF key \in DOMAIN j.v THEN j.v[key] ELSE default)
    ELSE Raise("AttributeError")

\* the exception classes and their bases
Bases(exc) ==
    CASE exc \in {"ConnectionError", "HTTPError"} ->
            {exc, "RequestException", "Exception"}
      [] exc = "JSONDecodeError" -> {exc, "ValueError", "Exception"}
      [] OTHER -> {exc, "Exception"}

\* the except clauses of lines 214-222 without the last one
FirstHandlers_no_catch_all == {"RequestException", "ValueError"}

\* the except clauses of lines 214-222
FirstHandlers == {"RequestException", "ValueError", "Exception"}

\* _parse_title_result, lines 259-296: the record of a hit, or None
parse_title_result(result) ==
    LET document == safe_get(result, <<"document">>, JDict(<<>>))
        id == safe_get(document, <<"id">>, JStr(""))
    IN  IF ~Truthy(document) THEN NoneDict
        ELSE IF document.t # "dict" THEN NoneDict  \* AttributeError, line 343
        ELSE [id |-> id,
              title |-> safe_get(document, <<"title">>, JStr("")),
              identifiers |->
                 [k \in {"hardcover-id", "hardcover"} |->
                     IF k = "hardcover-id" THEN id
                     ELSE safe_get(document, <<"slug">>, JStr(""))]]

\* search, lines 230-248: the records of a title search
title_results(response_data) ==
    LET raw_results == safe_get(response_data,
                                <<"data", "search", "results", "hits">>,
                                JList(<<>>))
        parsed_results ==
            IF raw_results.t = "str"
            THEN IF "json" \in DOMAIN raw_results
                 THEN raw_results.json   \* json.loads, line 237
                 ELSE JList(<<>>)        \* json.loads raises, line 240
            ELSE raw_results
        search_hits == Items(safe_get(parsed_results, <<"hits">>, JList(<<>>)))
    IN  IF search_hits.raised # "" THEN search_hits
        ELSE LET matches == [i \in DOMAIN search_hits.val |->
                                parse_title_result(search_hits.val[i])]
             IN  Value(SelectSeq(matches, LAMBDA m : m # NoneDict))

\* _parse_edition_results, lines 327-331: identifiers["isbn"]
edition_isbn(edition) ==
    LET isbn == IF "isbn_13" \in DOMAIN edition.v THEN edition.v["isbn_13"]
                ELSE IF "isbn_10" \in DOMAIN edition.v THEN edition.v["isbn_10"]
                ELSE JNull
    IN  IF Truthy(isbn) THEN isbn ELSE JStr("")

\* _parse_edition_results, lines 302-339: the record of an edition
parse_edition(result, edition) ==
    IF edition.t # "dict" THEN Raise("AttributeError")
    ELSE Value([id |-> DictGet(result, "id", JStr("")).val,
                title |-> DictGet(edition, "title", JStr("")).val,
                identifiers |->
                   [k \in {"hardcover-id", "hardcover", "hardcover-edition", "isbn"} |->
                       CASE k = "hardcover-id" -> DictGet(result, "id", JStr("")).val
                         [] k = "hardcover" -> DictGet(result, "slug", JStr("")).val
                         [] k = "hardcover-edition" -> DictGet(edition, "id", JStr("")).val
                         [] k = "isbn" -> edition_isbn(edition)]])

\* _parse_edition_results, lines 298-340
parse_edition_results(result) ==
    IF result.t # "dict" THEN Raise("AttributeError")
    ELSE IF "editions" \notin DOMAIN result.v THEN Raise("KeyError")
    ELSE LET editions == Items(result.v["editions"])
         IN  IF editions.raised # "" THEN editions
             ELSE LET matches == [i \in DOMAIN editions.val |->
                                     parse_edition(result, editions.val[i])]
                  IN  IF \E i \in DOMAIN matches : matches[i].raised # ""
                      THEN Raise("AttributeError")
                      ELSE Value([i \in DOMAIN matches |-> matches[i].val])

\* search, lines 225-229: the records of an edition search
edition_results(response_data) ==
    LET books_data == safe_get(response_data, <<"data", "books">>, JList(<<>>))
    IN  IF ~Truthy(books_data) THEN Value(<<>>)
        ELSE CASE books_data.t = "list" -> parse_edition_results(books_data.v[1])
               [] books_data.t = "str" -> parse_edition_results(JStr("c"))
               [] books_data.t = "dict" -> Raise("KeyError")
               [] OTHER -> Raise("TypeError")

\* search, lines 200-212: what the first try block makes of the response;
\* val = TRUE when the body goes on to be processed
first_try(response) ==
    IF response.kind # "json" THEN Raise(response.kind)
    ELSE LET has_errors == Contains(response.body, "errors")
             has_data == Contains(response.body, "data")
         IN  IF has_errors.raised # "" THEN has_errors
             ELSE IF has_errors.val THEN Value(FALSE)
             ELSE Value(has_data.val)

\* search, lines 200-254, from the response on: how the call ends
search_return(edition_search, response) ==
    LET first == first_try(response)
    IN  IF first.raised # ""
        THEN IF Bases(first.raised) \cap FirstHandlers # {}
             THEN [outcome |-> "returned", val |-> <<>>]
             ELSE [outcome |-> first.raised, val |-> <<>>]
        ELSE IF ~first.val THEN [outcome |-> "returned", val |-> <<>>]
        ELSE LET r == IF edition_search
                      THEN edition_results(response.body)
                      ELSE title_results(response.body)
             IN  IF r.raised # ""
                 THEN [outcome |-> "returned", val |-> <<>>]   \* lines 250-252
                 ELSE [outcome |-> "returned", val |-> r.val]

\* the hits of a response: two with a document, one whose document is
\* null, one that is no object, one whose document is no object
Hit(id, title, slug) ==
    JDict([document |-> JDict([id |-> JInt(id), title |-> JStr(title),
                                slug |-> JStr(slug)])])

HitLists ==
    << <<Hit(1, "Dune", "dune"), Hit(2, "Dune Messiah", "dune-messiah")>>,
       <<Hit(1, "Dune", "dune"), JDict([document |-> JNull]),
         Hit(2, "Dune Messiah", "dune-messiah")>>,
       <<JStr("hit"), Hit(2, "Dune Messiah", "dune-messiah"),
         JDict([document |-> JStr("doc")])>>,
       <<>> >>

\* {"data": {"search": {"results": {"hits": hits}}}}
SearchBody(hits) ==
    JDict([data |-> JDict([search |-> JDict([results |->
              JDict([hits |-> hits])])])])

\* the editions of a book as EDITION_QUERY selects them (lines 144-147)
EditionJson(id, isbn_13, isbn_10) ==
    JDict([id |-> JInt(id), title |-> JStr("Dune"), isbn_13 |-> isbn_13,
           isbn_10 |-> isbn_10, reading_format_id |-> JInt(1)])

EditionLists ==
    << <<EditionJson(11, JStr(ISBN13a), JStr(ISBN10)),
         EditionJson(12, JNull, JStr(ISBN10)),
         EditionJson(13, JStr(""), JStr(ISBN10)),
         EditionJson(14, JNull, JNull)>>,
       <<JDict([id |-> JInt(15), title |-> JStr("Dune"),
                isbn_10 |-> JStr(ISBN10)]),
         EditionJson(11, JStr(ISBN13a), JNull)>>,
       <<EditionJson(11, JStr(ISBN13a), JStr(ISBN10)), JNull>>,
       <<>> >>

\* {"data": {"books": [{"id": 1, "slug": "dune", "editions": editions}]}}
EditionBody(editions) ==
    JDict([data |-> JDict([books |-> JList(<<
              JDict([id |-> JInt(1), slug |-> JStr("dune"),
                     title |-> JStr("Dune"), editions |-> editions])>>)])])

\* the outcomes of the request: no response, a non-2xx status, a body that
\* is not JSON, and JSON bodies
Responses ==
    << [kind |-> "ConnectionError"],
       [kind |-> "HTTPError"],
       [kind |-> "JSONDecodeError"],
       [kind |-> "json", body |-> JDict([errors |-> JList(<<JStr("denied")>>)])],
       [kind |-> "json", body |-> JDict([errors |-> JList(<<JStr("partial")>>),
                                         data |-> JDict([books |-> JList(<<>>)])])],
       [kind |-> "json", body |-> JDict([extensions |-> JNull])],
       [kind |-> "json", body |-> JNull],
       [kind |-> "json", body |-> JList(<<JStr("data")>>)],
       [kind |-> "json", body |-> JDict([data |-> JNull])],
       [kind |-> "json", body |-> JDict([data |-> JDict([books |-> JInt(7)])])],
       [kind |-> "json", body |-> JDict([data |-> JDict([books |-> JList(<<JNull>>)])])],
       [kind |-> "json", body |->
           JDict([data |-> JDict([books |-> JList(<<JDict([id |-> JInt(1)])>>)])])],
       [kind |-> "json", body |-> SearchBody(JInt(7))],
       [kind |-> "json", body |-> SearchBody(JStr("no json"))],
       [kind |-> "json", body |-> SearchBody(JDict([hits |-> JInt(7)]))] >>
    \o [i \in DOMAIN HitLists |->
           [kind |-> "json", body |-> SearchBody(JList(HitLists[i]))]]
    \o [i \in DOMAIN HitLists |->
           [kind |-> "json", body |-> SearchBody(JText(JList(HitLists[i])))]]
    \o [i \in DOMAIN HitLists |->
           [kind |-> "json", body |->
               SearchBody(JDict([hits |-> JList(HitLists[i])]))]]
    \o [i \in DOMAIN HitLists |->
           [kind |-> "json", body |->
               SearchBody(JText(JDict([hits |-> JList(HitLists[i])])))]]
    \o [i \in DOMAIN EditionLists |->
           [kind |-> "json", body |-> EditionBody(JList(EditionLists[i]))]]

\* the query arguments, as query.split(":") (lines 187, 195)
Queries == << <<"dune">>, <<"hardcover-id", "1">>, <<"hardcover-id">> >>

\* current_user.hardcover_token
UserTokens == {"", "alice", "Bearer bob"}

\* "Bearer %s" % token.replace("Bearer ", ""), line 188
AuthorizationOf(token) ==
    CASE token = "alice" -> "Bearer alice"
      [] token = "Bearer bob" -> "Bearer bob"
      [] token = "global" -> "Bearer global"
      [] token = "env" -> "Bearer env"

\* line 183
ResolveToken(user_token, config, env) ==
    IF user_token # "" THEN user_token
    ELSE IF config # "" THEN config
    ELSE env

\* set_status leaving the provider active
set_status_ignored(state) == TRUE

\* Metadata.set_status(state), lines 97-98: the new value of self.active
set_status(state) == state

\* a thread that is not in search
IdleSearch ==
    [pc |-> "idle", query |-> <<>>, user_token |-> "", token |-> "",
     was_active |-> TRUE, posted |-> FALSE, authorization |-> "",
     response |-> [kind |-> "none"], val |-> <<>>, outcome |-> "none"]

\* Metadata.__init__ (line 95) and the class attribute HEADERS (lines 171-174)
InitSearch ==
    /\ active = TRUE
    /\ deactivated = FALSE
    /\ HEADERS = ("Content-Type" :> "application/json" @@ "User-Agent" :> "ua")
    /\ config_token = ""
    /\ env_token \in {"", "env"}
    /\ search_calls = 0
    /\ searches = [t \in Threads |-> IdleSearch]

----------------------------------------------------------------------------
(* State *)

Cfg ==
    [pc |-> pc, caller |-> caller, parsed |-> parsed, ids |-> ids,
     fetched |-> fetched, book |-> book, variables |-> variables, log |-> log,
     outcome |-> outcome, failed |-> failed]

SetCfg(c) ==
    /\ pc' = c.pc
    /\ caller' = c.caller
    /\ parsed' = c.parsed
    /\ ids' = c.ids
    /\ fetched' = c.fetched
    /\ book' = c.book
    /\ variables' = c.variables
    /\ log' = c.log
    /\ outcome' = c.outcome
    /\ failed' = c.failed

\* the locals of a call that has just been entered
Entry ==
    [pc |-> "entry", caller |-> "update_reading_progress", parsed |-> EmptyDict,
     ids |-> EmptyDict, fetched |-> EmptyDict, book |-> NoneDict,
     variables |-> EmptyDict,
     log |-> <<>>, outcome |-> "running", failed |-> 0]

\* the request whose response is pending
Pending == log[Len(log)].variables

ProgressValues == {0, 35, 50, 70, 100}

Dict(d) == [isdict |-> TRUE, val |-> d]
List(l) == [isdict |-> FALSE, val |-> l]
Id(t, v) == [type |-> t, val |-> v]

\* the identifier arguments the callers pass: a dict or a list of objects
\* with .type and .val
IdentifierInputs ==
    << Dict(EmptyDict),
       Dict([amazon |-> "B00"]),
       Dict([isbn |-> ISBN13a]),
       Dict("hardcover-edition" :> 11),
       Dict([hardcover |-> "dune"]),
       Dict([hardcover |-> "dune", isbn |-> ISBN13a]),
       Dict([hardcover |-> "dune", isbn |-> ISBN10]),
       Dict([hardcover |-> "dune", isbn |-> ISBN13x]),
       Dict([hardcover |-> "nope"]),
       Dict([hardcover |-> ""]),
       Dict("hardcover-id" :> 1),
       Dict("hardcover-id" :> 1 @@ "hardcover-edition" :> 12),
       Dict("hardcover-id" :> 1 @@ "hardcover" :> "dune" @@ "isbn" :> ISBN13a),
       Dict("hardcover" :> "dune" @@ "hardcover-edition" :> 12),
       Dict("hardcover" :> "dune" @@ "hardcover-edition" :> 12 @@ "isbn" :> ISBN13a),
       List(<<Id("amazon", "B00"), Id("hardcover", "dune")>>),
       List(<<Id("isbn", ISBN13a), Id("goodreads", "77")>>),
       List(<<Id("hardcover", "nope"), Id("hardcover", "dune"), Id("isbn", ISBN13a)>>),
       List(<<Id("hardcover-id", 1), Id("hardcover-edition", 14)>>) >>

\* the accounts a first call can meet: no user book, or one user book of
\* any status and edition with at most one read, open or finished
InitReads ==
    {<<>>} \cup
    {<<[user_book_id |-> 1, started_at |-> s, finished_at |-> f,
        edition_id |-> None, progress_pages |-> 0]>> :
        s \in {None, 0}, f \in {None, 0}}

Init ==
    /\ \/ /\ user_books = <<>>
          /\ user_book_reads = <<>>
       \/ /\ \E st \in 1..3, e \in {None} \cup EditionIds :
                user_books = <<[status_id |-> st, book_id |-> 1, edition_id |-> e]>>
          /\ user_book_reads \in InitReads
    /\ today = 0
    /\ calls = 0
    /\ identifiers = Dict(EmptyDict)
    /\ progress_percent = 0
    /\ pc = "idle"
    /\ caller = Entry.caller
    /\ parsed = Entry.parsed
    /\ ids = Entry.ids
    /\ fetched = Entry.fetched
    /\ book = Entry.book
    /\ variables = Entry.variables
    /\ log = Entry.log
    /\ outcome = "none"
    /\ failed = Entry.failed
    /\ resolved = EmptyDict
    /\ before = EmptyDict
    /\ InitAuthors
    /\ InitSearch

----------------------------------------------------------------------------
(* Actions *)

\* a call of update_reading_progress, on the same day as the call before
\* or on a later one, up to its first request
update_reading_progress ==
    /\ pc = "idle"
    /\ calls < MaxCalls
    /\ calls' = calls + 1
    /\ \E i \in DOMAIN IdentifierInputs, p \in ProgressValues :
          /\ identifiers' = IdentifierInputs[i]
          /\ progress_percent' = p
          /\ SetCfg(parse_identifiers(Entry, IdentifierInputs[i],
                                      "update_reading_progress"))
    /\ today' \in today..MaxDay
    /\ UNCHANGED remote
    /\ UNCHANGED others

\* execute, lines 366-372: the response is a non-2xx status or carries
\* "errors"; the server has changed nothing
execute_raises ==
    /\ pc \notin {"idle", "done"}
    /\ SetCfg(execute_error(Cfg))
    /\ UNCHANGED <<remote, today, calls, args>>
    /\ UNCHANGED others

\* what the server cannot answer without "errors": a document with no
\* operation, a null for a variable of type Int!
Rejected ==
    \/ pc = "get_user_book" /\ Pending.by = "nothing"
    \/ pc \in {"change_book_status_reading", "change_book_status_read"}
          /\ Pending.id = None
    \/ pc = "add_book" /\ Pending.book_id \notin BookIds

\* parse_identifiers, line 245: the books of the slug arrive
get_book_id ==
    /\ pc = "get_book_id"
    /\ SetCfg(get_book_id_return(Cfg, BooksResponse(Pending)))
    /\ UNCHANGED <<remote, today, calls, args>>
    /\ UNCHANGED others

\* update_reading_progress, lines 116-119: the user book arrives
get_user_book ==
    /\ pc = "get_user_book"
    /\ ~Rejected
    /\ LET b == FirstUserBook(user_books, user_book_reads, Pending)
           c == [Cfg EXCEPT !.fetched = b, !.book = b]
       IN  IF b = NoneDict \/ b = EmptyDict
           THEN SetCfg(add_book(c))
           ELSE SetCfg(have_book(c, progress_percent, today))
    /\ UNCHANGED <<remote, today, calls, args>>
    /\ UNCHANGED others

\* the edition the server gives a new user book
NewEditions(v) ==
    IF v.edition_id # None THEN {v.edition_id}
    ELSE {None, Editions[1].id}

\* update_reading_progress, lines 119-120 (add_book, lines 203-204): the
\* response of insert_user_book arrives
add_book_returns ==
    /\ pc = "add_book"
    /\ ~Rejected
    /\ \/ \* the user book was inserted
          /\ Len(user_books) < MaxUserBooks
          /\ \E e \in NewEditions(Pending) :
                LET ub == Append(user_books,
                                 [status_id |-> Pending.status_id,
                                  book_id |-> Pending.book_id, edition_id |-> e])
                    b == UserBookJson(ub, user_book_reads, Len(ub))
                IN  /\ user_books' = ub
                    /\ SetCfg(have_book([Cfg EXCEPT !.book = b],
                                        progress_percent, today))
          /\ UNCHANGED user_book_reads
       \/ \* {"insert_user_book": {"error": "...", "user_book": null}}, or
          \* {"insert_user_book": null}
          /\ SetCfg(Stop([Cfg EXCEPT !.book = NoneDict], "AttributeError"))
          /\ UNCHANGED remote
       \/ \* no "insert_user_book" in the data, or {"insert_user_book": {}}
          /\ SetCfg(have_book([Cfg EXCEPT !.book = EmptyDict],
                              progress_percent, today))
          /\ UNCHANGED remote
    /\ UNCHANGED <<today, calls, args>>
    /\ UNCHANGED others

\* update_reading_progress, lines 127-128 (change_book_status, lines
\* 181-182): the response of update_user_book(status 2) arrives
change_book_status_reading ==
    /\ pc = "change_book_status_reading"
    /\ ~Rejected
    /\ \/ LET ub == [user_books EXCEPT ![Pending.id].status_id = Pending.status_id]
              b == UserBookJson(ub, user_book_reads, Pending.id)
          IN  /\ user_books' = ub
              /\ SetCfg(already_read([Cfg EXCEPT !.book = b],
                                     progress_percent, today))
       \/ \* {"update_user_book": {"error": "...", "user_book": null}}
          /\ SetCfg(Stop([Cfg EXCEPT !.book = NoneDict], "AttributeError"))
          /\ UNCHANGED user_books
    /\ UNCHANGED <<user_book_reads, today, calls, args>>
    /\ UNCHANGED others

\* update_reading_progress, line 138 (add_read, lines 230-231): the
\* response of insert_user_book_read arrives
add_read ==
    /\ pc = "add_read"
    /\ \/ /\ Len(user_book_reads) < MaxReads
          /\ user_book_reads' =
                Append(user_book_reads,
                       [user_book_id |-> Pending.id,
                        started_at |-> Pending.startedAt,
                        finished_at |-> None,
                        edition_id |-> Pending.editionId,
                        progress_pages |-> Pending.pages])
          /\ SetCfg(Stop(Cfg, "returned"))
       \/ \* {"insert_user_book_read": {"error": "...", "user_book_read": null}}
          /\ SetCfg(Stop(Cfg, "returned"))
          /\ UNCHANGED user_book_reads
       \/ \* {"insert_user_book_read": null}
          /\ SetCfg(Stop(Cfg, "AttributeError"))
          /\ UNCHANGED user_book_reads
    /\ UNCHANGED <<user_books, today, calls, args>>
    /\ UNCHANGED others

\* update_reading_progress, lines 159-161: the response of
\* update_user_book(status 3) arrives and is dropped
change_book_status_read ==
    /\ pc = "change_book_status_read"
    /\ ~Rejected
    /\ \/ user_books' = [user_books EXCEPT ![Pending.id].status_id = Pending.status_id]
       \/ \* {"update_user_book": {"error": "...", "user_book": null}}
          UNCHANGED user_books
    /\ SetCfg(Request(Cfg, "update_user_book_read", "update_user_book_read",
                      variables))
    /\ UNCHANGED <<user_book_reads, today, calls, args>>
    /\ UNCHANGED others

\* update_reading_progress, lines 161-163: the response of
\* update_user_book_read arrives
update_user_book_read ==
    /\ pc = "update_user_book_read"
    /\ user_book_reads' =
          [user_book_reads EXCEPT ![Pending.readId] =
              [@ EXCEPT !.progress_pages = Pending.pages,
                        !.edition_id = Pending.editionId,
                        !.started_at = Pending.startedAt,
                        !.finished_at = Pending.finishedAt]]
    /\ SetCfg(Stop(Cfg, "returned"))
    /\ UNCHANGED <<user_books, today, calls, args>>
    /\ UNCHANGED others

\* update_reading_progress has returned or raised: control is back with the
\* caller and the locals of the call are gone
call_over ==
    /\ pc = "done"
    /\ SetCfg([Entry EXCEPT !.pc = "idle", !.outcome = "none"])
    /\ identifiers' = Dict(EmptyDict)
    /\ progress_percent' = 0
    /\ UNCHANGED <<remote, today, calls>>
    /\ UNCHANGED others

Next ==
    \/ update_reading_progress
    \/ execute_raises
    \/ get_book_id
    \/ get_user_book
    \/ add_book_returns
    \/ change_book_status_reading
    \/ add_read
    \/ change_book_status_read
    \/ update_user_book_read
    \/ call_over

Spec == Init /\ [][Next]_vars

----------------------------------------------------------------------------
(* update_reading_progress called again and again for one book, as the     *)
(* reader of a synchronised device reports its progress (lines 113-165)    *)

\* the first call for the book
first_call ==
    /\ calls = 0
    /\ update_reading_progress

\* update_reading_progress has returned: the caller keeps what it passed
\* (and, for the properties, the requests the call sent and the account as
\* it left it), and the locals of the call are gone; after an exception the
\* caller makes no further call
call_returns ==
    /\ pc = "done"
    /\ before' = IF outcome = "returned"
                 THEN [identifiers |-> identifiers,
                       progress_percent |-> progress_percent,
                       today |-> today, log |-> log,
                       user_books |-> user_books,
                       user_book_reads |-> user_book_reads]
                 ELSE EmptyDict
    /\ SetCfg([Entry EXCEPT !.pc = "idle", !.outcome = "none"])
    /\ identifiers' = Dict(EmptyDict)
    /\ progress_percent' = 0
    /\ UNCHANGED <<remote, today, calls, resolved, authors, provider>>

\* the next call for the same book, on the same day or on a later one, with
\* the same progress or another, up to its first request
update_reading_progress_again ==
    /\ pc = "idle"
    /\ before # EmptyDict
    /\ calls < 1 + MaxRepeats
    /\ calls' = calls + 1
    /\ identifiers' = before.identifiers
    /\ \E p \in ProgressValues : progress_percent' = p
    /\ SetCfg(parse_identifiers(Entry, before.identifiers,
                                "update_reading_progress"))
    /\ today' \in today..MaxDay
    /\ UNCHANGED remote
    /\ UNCHANGED others

NextAgain ==
    \/ first_call
    \/ update_reading_progress_again
    \/ execute_raises
    \/ get_book_id
    \/ get_user_book
    \/ add_book_returns
    \/ change_book_status_reading
    \/ add_read
    \/ change_book_status_read
    \/ update_user_book_read
    \/ call_returns

InitAgain ==
    /\ Init
    /\ env_token = ""

SpecAgain == InitAgain /\ [][NextAgain]_vars

----------------------------------------------------------------------------
(* parse_identifiers called on its own, several times in a row, the        *)
(* catalogue unchanged                                                     *)

InitParse ==
    /\ Init
    /\ user_books = <<>>

\* a call of parse_identifiers (lines 233-245) up to its request: with new
\* identifiers, with the identifiers of the call before, or with the set the
\* call before returned
parse_identifiers_call ==
    /\ pc = "idle"
    /\ calls < MaxParses
    /\ calls' = calls + 1
    /\ \/ \E i \in DOMAIN IdentifierInputs :
             /\ identifiers' = IdentifierInputs[i]
             /\ resolved' = IF resolved = EmptyDict THEN resolved
                            ELSE [resolved EXCEPT !.then = "other"]
       \/ /\ resolved # EmptyDict
          /\ identifiers' = resolved.input
          /\ resolved' = [resolved EXCEPT !.then = "same"]
       \/ /\ resolved # EmptyDict
          /\ identifiers' = Dict(resolved.output)
          /\ resolved' = [resolved EXCEPT !.then = "output"]
    /\ SetCfg(parse_identifiers(Entry, identifiers', "parse_identifiers"))
    /\ UNCHANGED <<remote, today, progress_percent, before, authors, provider>>

\* parse_identifiers has returned (line 251) or raised: the caller keeps
\* what it passed and what it got
parse_identifiers_over ==
    /\ pc = "done"
    /\ resolved' = IF outcome = "returned"
                   THEN [input |-> identifiers, output |-> parsed, then |-> "none"]
                   ELSE EmptyDict
    /\ SetCfg([Entry EXCEPT !.pc = "idle", !.outcome = "none"])
    /\ identifiers' = Dict(EmptyDict)
    /\ UNCHANGED <<remote, today, calls, progress_percent, before, authors,
                   provider>>

NextParse ==
    \/ parse_identifiers_call
    \/ execute_raises
    \/ get_book_id
    \/ parse_identifiers_over

SpecParse == InitParse /\ [][NextParse]_vars

----------------------------------------------------------------------------
(* get_author_info and get_other_author_books, split at their accesses to  *)
(* the shared caches and at the request                                    *)

sync == <<user_books, user_book_reads, today, calls, identifiers,
          progress_percent, locals, resolved, before>>

InitAuthorCalls ==
    /\ Init
    /\ user_books = <<>>

\* seconds pass
Tick ==
    /\ ticks < MaxTicks
    /\ ticks' = ticks + 1
    /\ \E d \in {1, CACHE_TIMEOUT - 1} : now' = now + d
    /\ UNCHANGED <<author_calls, AUTHORS_CACHE, AUTHORS_BOOKS_CACHE, threads,
                   lookups, sync, provider>>

\* get_author_info, line 254
get_author_info(t) ==
    /\ threads[t].pc = "idle"
    /\ author_calls < MaxAuthorCalls
    /\ author_calls' = author_calls + 1
    /\ \E a \in AuthorSlugs :
          /\ lookups' = IF lookups[a].start = None
                        THEN [lookups EXCEPT ![a].start = now]
                        ELSE lookups
          /\ threads' = [threads EXCEPT ![t] =
                [IdleThread EXCEPT !.pc = "cached", !.fn = "get_author_info",
                                   !.author = a, !.outcome = "running",
                                   !.cached = Get(AUTHORS_CACHE, a, NoneDict)]]
    /\ UNCHANGED <<now, ticks, AUTHORS_CACHE, AUTHORS_BOOKS_CACHE, sync, provider>>

\* get_author_info, lines 255-272: the entry read is returned, or deleted
\* and the request sent
author_info_cached(t) ==
    LET th == threads[t]
        a == th.author
    IN  /\ th.pc = "cached"
        /\ th.fn = "get_author_info"
        /\ IF th.cached # NoneDict /\ Fresh(th.cached, now)
           THEN /\ threads' = [threads EXCEPT ![t] =
                      [th EXCEPT !.pc = "done", !.outcome = "returned",
                                 !.author_info = th.cached.data]]
                /\ UNCHANGED <<AUTHORS_CACHE, lookups>>
           ELSE IF th.cached # NoneDict /\ a \notin DOMAIN AUTHORS_CACHE
           THEN /\ threads' = [threads EXCEPT ![t] =
                      [th EXCEPT !.pc = "done", !.outcome = "KeyError"]]
                /\ UNCHANGED <<AUTHORS_CACHE, lookups>>
           ELSE /\ AUTHORS_CACHE' = IF th.cached # NoneDict
                                    THEN DictDel(AUTHORS_CACHE, a)
                                    ELSE AUTHORS_CACHE
                /\ threads' = [threads EXCEPT ![t] =
                      [th EXCEPT !.pc = "execute", !.sent = 1]]
                /\ lookups' = IF now < lookups[a].start + CACHE_TIMEOUT
                              THEN [lookups EXCEPT ![a].requests = @ + 1]
                              ELSE lookups
        /\ UNCHANGED <<now, ticks, author_calls, AUTHORS_BOOKS_CACHE, sync, provider>>

\* get_author_info, lines 272-281: the response arrives
author_info_response(t) ==
    LET th == threads[t]
        a == th.author
        first(how) == IF lookups[a].first = "none"
                      THEN [lookups EXCEPT ![a].first = how] ELSE lookups
    IN  /\ th.pc = "execute"
        /\ th.fn = "get_author_info"
        /\ \/ \* execute raises (lines 366-372)
              /\ threads' = [threads EXCEPT ![t] =
                    [th EXCEPT !.pc = "done", !.outcome = "Exception"]]
              /\ lookups' = first("failed")
              /\ UNCHANGED AUTHORS_CACHE
           \/ \E authors_json \in AuthorsAnswers(a) :
              LET author_info == IF authors_json # <<>>
                                 THEN AuthorInfoJson(authors_json[1])
                                 ELSE NoneDict
              IN
              /\ AUTHORS_CACHE' =
                    IF author_info # NoneDict
                    THEN DictSet(AUTHORS_CACHE, a,
                                 [data |-> author_info, timestamp |-> now])
                    ELSE AUTHORS_CACHE
              /\ threads' = [threads EXCEPT ![t] =
                    [th EXCEPT !.pc = "done", !.outcome = "returned",
                               !.author_info = author_info]]
              /\ lookups' = first(IF author_info # NoneDict
                                  THEN "found" ELSE "no author")
        /\ UNCHANGED <<now, ticks, author_calls, AUTHORS_BOOKS_CACHE, sync, provider>>

\* get_other_author_books, line 284
get_other_author_books(t) ==
    /\ threads[t].pc = "idle"
    /\ author_calls < MaxAuthorCalls
    /\ author_calls' = author_calls + 1
    /\ \E a \in AuthorSlugs, library_books \in LibraryBooks :
          threads' = [threads EXCEPT ![t] =
             [IdleThread EXCEPT !.pc = "cached", !.fn = "get_other_author_books",
                                !.author = a, !.library_books = library_books,
                                !.outcome = "running",
                                !.cached = Get(AUTHORS_BOOKS_CACHE, a, NoneDict)]]
    /\ UNCHANGED <<now, ticks, AUTHORS_CACHE, AUTHORS_BOOKS_CACHE, lookups, sync, provider>>

\* get_other_author_books, lines 285-307: the entry read is returned, or
\* deleted and the request sent
author_books_cached(t) ==
    LET th == threads[t]
        a == th.author
    IN  /\ th.pc = "cached"
        /\ th.fn = "get_other_author_books"
        /\ IF th.cached # NoneDict /\ Fresh(th.cached, now)
           THEN /\ threads' = [threads EXCEPT ![t] =
                      [th EXCEPT !.pc = "done", !.outcome = "returned",
                                 !.books = th.cached.data]]
                /\ UNCHANGED AUTHORS_BOOKS_CACHE
           ELSE IF th.cached # NoneDict /\ a \notin DOMAIN AUTHORS_BOOKS_CACHE
           THEN /\ threads' = [threads EXCEPT ![t] =
                      [th EXCEPT !.pc = "done", !.outcome = "KeyError"]]
                /\ UNCHANGED AUTHORS_BOOKS_CACHE
           ELSE /\ AUTHORS_BOOKS_CACHE' = IF th.cached # NoneDict
                                          THEN DictDel(AUTHORS_BOOKS_CACHE, a)
                                          ELSE AUTHORS_BOOKS_CACHE
                /\ threads' = [threads EXCEPT ![t] =
                      [th EXCEPT !.pc = "execute", !.sent = 1]]
        /\ UNCHANGED <<now, ticks, author_calls, AUTHORS_CACHE, lookups, sync, provider>>

\* get_other_author_books, lines 307-323: the response arrives
author_books_response(t) ==
    LET th == threads[t]
        a == th.author
        author_res == AuthorsResponse(a)
    IN  /\ th.pc = "execute"
        /\ th.fn = "get_other_author_books"
        /\ \/ \* execute raises (lines 366-372)
              /\ threads' = [threads EXCEPT ![t] =
                    [th EXCEPT !.pc = "done", !.outcome = "Exception"]]
              /\ UNCHANGED AUTHORS_BOOKS_CACHE
           \/ IF author_res = <<>>
              THEN /\ threads' = [threads EXCEPT ![t] =
                         [th EXCEPT !.pc = "done", !.outcome = "returned",
                                    !.books = <<>>]]
                   /\ UNCHANGED AUTHORS_BOOKS_CACHE
              ELSE LET books == OtherBooks(author_res[1].contributions,
                                           th.library_books)
                   IN  /\ AUTHORS_BOOKS_CACHE' =
                             DictSet(AUTHORS_BOOKS_CACHE, a,
                                     [data |-> books, timestamp |-> now])
                       /\ threads' = [threads EXCEPT ![t] =
                             [th EXCEPT !.pc = "done", !.outcome = "returned",
                                        !.books = books]]
        /\ UNCHANGED <<now, ticks, author_calls, AUTHORS_CACHE, lookups, sync, provider>>

\* the call of thread t has returned or raised
author_call_over(t) ==
    /\ threads[t].pc = "done"
    /\ threads' = [threads EXCEPT ![t] = IdleThread]
    /\ UNCHANGED <<now, ticks, author_calls, AUTHORS_CACHE, AUTHORS_BOOKS_CACHE,
                   lookups, sync, provider>>

\* a step of thread t
AuthorStep(t) ==
    \/ get_author_info(t)
    \/ author_info_cached(t)
    \/ author_info_response(t)
    \/ get_other_author_books(t)
    \/ author_books_cached(t)
    \/ author_books_response(t)
    \/ author_call_over(t)

\* the calls one after the other
NextAuthors ==
    \/ Tick
    \/ AuthorStep(1)

SpecAuthors == InitAuthorCalls /\ [][NextAuthors]_vars

\* the calls of several threads interleaved
NextAuthorsRace ==
    \/ Tick
    \/ \E t \in Threads : AuthorStep(t)

SpecAuthorsRace == InitAuthorCalls /\ [][NextAuthorsRace]_vars

----------------------------------------------------------------------------
(* search, split where it writes and reads the shared HEADERS and at the   *)
(* request                                                                 *)

InitSearchCalls ==
    /\ Init
    /\ user_books = <<>>

\* the administrator sets or clears config_hardcover_api_token
set_token ==
    /\ config_token' = IF config_token = "" THEN "global" ELSE ""
    /\ UNCHANGED <<active, deactivated, HEADERS, env_token, search_calls,
                   searches, sync, authors>>

\* search, lines 180-188
search(t) ==
    /\ searches[t].pc = "idle"
    /\ search_calls < MaxSearches
    /\ search_calls' = search_calls + 1
    /\ \E q \in DOMAIN Queries, user_token \in UserTokens :
          LET token == ResolveToken(user_token, config_token, env_token)
              th == [IdleSearch EXCEPT !.query = Queries[q],
                                       !.user_token = user_token,
                                       !.was_active = active,
                                       !.outcome = "running"]
          IN  IF ~active
              THEN /\ searches' = [searches EXCEPT ![t] =
                         [th EXCEPT !.pc = "done", !.outcome = "returned"]]
                   /\ UNCHANGED <<active, deactivated, HEADERS>>
              ELSE IF token = ""
              THEN /\ active' = set_status(FALSE)
                   /\ deactivated' = TRUE
                   /\ searches' = [searches EXCEPT ![t] =
                         [th EXCEPT !.pc = "done", !.outcome = "returned"]]
                   /\ UNCHANGED HEADERS
              ELSE /\ HEADERS' = DictSet(HEADERS, "Authorization",
                                         AuthorizationOf(token))
                   /\ searches' = [searches EXCEPT ![t] =
                         [th EXCEPT !.pc = "post", !.token = token]]
                   /\ UNCHANGED <<active, deactivated>>
    /\ UNCHANGED <<config_token, env_token, sync, authors>>

\* search, lines 189-199: the request leaves with the HEADERS of the moment
search_post(t) ==
    LET th == searches[t]
    IN  /\ th.pc = "post"
        /\ IF th.query[1] = "hardcover-id" /\ Len(th.query) < 2
           THEN \* query.split(":")[1] raises IndexError (line 195)
                searches' = [searches EXCEPT ![t] =
                   [th EXCEPT !.pc = "done", !.outcome = "returned"]]
           ELSE searches' = [searches EXCEPT ![t] =
                   [th EXCEPT !.pc = "posted", !.posted = TRUE,
                              !.authorization = HEADERS["Authorization"]]]
        /\ UNCHANGED <<active, deactivated, HEADERS, config_token, env_token,
                       search_calls, sync, authors>>

\* search_response marking the provider inactive when the request failed
search_response_deactivating(t) ==
    LET th == searches[t]
    IN  /\ th.pc = "posted"
        /\ \E i \in DOMAIN Responses :
              LET r == search_return(th.query[1] = "hardcover-id", Responses[i])
              IN  /\ searches' = [searches EXCEPT ![t] =
                        [th EXCEPT !.pc = "done", !.response = Responses[i],
                                   !.val = r.val, !.outcome = r.outcome]]
                  /\ active' = IF Responses[i].kind # "json"
                               THEN set_status(FALSE) ELSE active
        /\ UNCHANGED <<deactivated, HEADERS, config_token, env_token,
                       search_calls, sync, authors>>

\* search, lines 200-254: the request has an outcome
search_response(t) ==
    LET th == searches[t]
    IN  /\ th.pc = "posted"
        /\ \E i \in DOMAIN Responses :
              LET r == search_return(th.query[1] = "hardcover-id", Responses[i])
              IN  searches' = [searches EXCEPT ![t] =
                     [th EXCEPT !.pc = "done", !.response = Responses[i],
                                !.val = r.val, !.outcome = r.outcome]]
        /\ UNCHANGED <<active, deactivated, HEADERS, config_token, env_token,
                       search_calls, sync, authors>>

\* the call of thread t is over
search_over(t) ==
    /\ searches[t].pc = "done"
    /\ searches' = [searches EXCEPT ![t] = IdleSearch]
    /\ UNCHANGED <<active, deactivated, HEADERS, config_token, env_token,
                   search_calls, sync, authors>>

\* a step of thread t
SearchStep(t) ==
    \/ search(t)
    \/ search_post(t)
    \/ search_response(t)
    \/ search_over(t)

\* the calls one after the other
NextSearch ==
    \/ set_token
    \/ SearchStep(1)

SpecSearch == InitSearchCalls /\ [][NextSearch]_vars

\* the calls of several threads interleaved
NextSearchRace ==
    \/ set_token
    \/ \E t \in Threads : SearchStep(t)

SpecSearchRace == InitSearchCalls /\ [][NextSearchRace]_vars

----------------------------------------------------------------------------
(* Vocabulary of the properties *)

Ops(op) == {i \in DOMAIN log : log[i].op = op}

Mutations ==
    Ops("insert_user_book") \cup Ops("update_user_book")
        \cup Ops("insert_user_book_read") \cup Ops("update_user_book_read")

StatusChanges(st) ==
    {i \in Ops("update_user_book") : log[i].variables.status_id = st}

Returned == pc = "done" /\ outcome = "returned"

\* b is a user book of the account (not None, not {})
IsUserBook(b) == "id" \in DOMAIN b

\* b is a user book whose edition has a page count > 0
HasPages(b) ==
    /\ IsUserBook(b)
    /\ b.edition # NoneDict
    /\ b.edition.pages # None
    /\ b.edition.pages > 0

HasOpenRead(b) == IsUserBook(b) /\ b.user_book_reads # <<>>

Finishing(b) ==
    /\ Returned
    /\ progress_percent = 100
    /\ HasPages(b)
    /\ HasOpenRead(b)

\* the update of the read is sent with today as finish date, after the
\* change of b's status to Read
FinishedAfterRead(b) ==
    \E j \in Ops("update_user_book_read") :
        /\ log[j].variables.finishedAt = today
        /\ \E i \in StatusChanges(3) : i < j /\ log[i].variables.id = b.id

----------------------------------------------------------------------------
(* C1 *)

\* C1 as claimed: every call with progress 100 on a user book with a page
\* count > 0 and an open read sends the update of the read with finish date
\* today, after the change of status to Read.
C1_AsClaimed == Finishing(fetched) => FinishedAfterRead(fetched)

\* C1 amended: every call with progress 100 that completes, on a user book
\* whose status is not yet Read and that has a page count > 0 and an open
\* read, sends the update of the read with finish date today, after the change
\* of status to Read; and no update of a read carrying a finish date is ever
\* sent before that change of status.
C1_FinishAfterStatusRead ==
    /\ Finishing(fetched) /\ fetched.status_id # 3 => FinishedAfterRead(fetched)
    /\ \A j \in Ops("update_user_book_read") :
          log[j].variables.finishedAt # None =>
              \E i \in StatusChanges(3) : i < j

C1_Witness ==
    /\ Finishing(fetched)
    /\ fetched.status_id = 2
    /\ Ops("update_user_book_read") # {}
    /\ user_book_reads[fetched.user_book_reads[1].id].finished_at = today

----------------------------------------------------------------------------
(* C2 *)

\* C2: a call with progress 100 whose fetched user book has status Read (3)
\* returns without having sent any mutation, whatever the page count and the
\* reads of the user book.
C2_ReadAndDoneIsNoop ==
    /\ pc # "idle"
    /\ progress_percent = 100
    /\ IsUserBook(fetched)
    /\ fetched.status_id = 3
    => Mutations = {} /\ Returned

C2_Witness ==
    /\ Returned
    /\ progress_percent = 100
    /\ HasPages(fetched)
    /\ HasOpenRead(fetched)
    /\ fetched.status_id = 3
    /\ Len(log) = 1

----------------------------------------------------------------------------
(* C3 *)

\* round to nearest, an exact half to the even neighbour
RoundHalfEven(num, den) ==
    LET q == num \div den
        r == num % den
    IN  IF 2 * r < den THEN q
        ELSE IF 2 * r > den THEN q + 1
        ELSE IF q % 2 = 0 THEN q ELSE q + 1

\* n is an integer nearest to num / den
Nearest(n, num, den) ==
    /\ 2 * (n * den - num) <= den
    /\ 2 * (num - n * den) <= den

Starting(b) ==
    /\ Returned
    /\ HasPages(b)
    /\ ~HasOpenRead(b)

\* exactly one insert of a read, started today and not finished, and no
\* update of a read
OneReadInserted ==
    /\ Cardinality(Ops("insert_user_book_read")) = 1
    /\ \A i \in Ops("insert_user_book_read") :
          /\ log[i].variables.startedAt = today
          /\ "finishedAt" \notin DOMAIN log[i].variables
    /\ Ops("update_user_book_read") = {}

\* C3 as claimed: every call on a user book with a page count > 0 and no open
\* read sends exactly one insert of a read with
\* pages = round(pageCount * progressPercent / 100), started today, not
\* finished, and no update of a read.
C3_AsClaimed ==
    Starting(book) =>
        /\ OneReadInserted
        /\ \A i \in Ops("insert_user_book_read") :
              log[i].variables.pages =
                  RoundHalfEven(book.edition.pages * progress_percent, 100)

\* C3 amended: the same for every call that completes and is not the no-op
\* of progress 100 on a user book already Read, the pages being an integer
\* nearest to pageCount * progressPercent / 100 (the double product decides
\* an exact half).
C3_NewReadWhenNoneOpen ==
    Starting(book) /\ ~(progress_percent = 100 /\ book.status_id = 3) =>
        /\ OneReadInserted
        /\ \A i \in Ops("insert_user_book_read") :
              /\ Nearest(log[i].variables.pages,
                         book.edition.pages * progress_percent, 100)
              /\ log[i].variables.id = book.id

C3_Witness ==
    /\ Starting(book)
    /\ progress_percent = 50
    /\ book.edition.pages = 200
    /\ \E i \in Ops("insert_user_book_read") : log[i].variables.pages = 100
    /\ \E j \in DOMAIN user_book_reads :
          /\ user_book_reads[j].user_book_id = book.id
          /\ user_book_reads[j].progress_pages = 100
          /\ user_book_reads[j].started_at = today
          /\ user_book_reads[j].finished_at = None

----------------------------------------------------------------------------
(* C4 *)

\* C4: a call with progress < 100 that fetched and completes sends exactly
\* one insert of a user book, with status Reading (2), if it fetched none;
\* exactly one change of status, to Reading, if the fetched one had another
\* status; no change of status if it was Reading; and the user book is
\* Reading on the server afterwards.
C4_ReadingAfterProgress ==
    /\ Returned
    /\ progress_percent < 100
    /\ fetched # EmptyDict
    => /\ fetched = NoneDict =>
             /\ Cardinality(Ops("insert_user_book")) = 1
             /\ \A i \in Ops("insert_user_book") : log[i].variables.status_id = 2
       /\ IsUserBook(fetched) /\ fetched.status_id # 2 =>
             /\ Cardinality(Ops("update_user_book")) = 1
             /\ \A i \in Ops("update_user_book") :
                   /\ log[i].variables.status_id = 2
                   /\ log[i].variables.id = fetched.id
             /\ Ops("insert_user_book") = {}
       /\ IsUserBook(fetched) /\ fetched.status_id = 2 =>
             Ops("update_user_book") = {} /\ Ops("insert_user_book") = {}
       /\ IsUserBook(book)
       /\ user_books[book.id].status_id = 2

C4_Witness ==
    /\ Returned
    /\ progress_percent < 100
    /\ IsUserBook(fetched)
    /\ fetched.status_id = 3
    /\ StatusChanges(2) # {}
    /\ user_books[fetched.id].status_id = 2

----------------------------------------------------------------------------
(* C5 *)

\* the server answered the insert of a user book without a user book
CreateFailed ==
    /\ pc = "done"
    /\ fetched = NoneDict
    /\ Ops("insert_user_book") # {}
    /\ book \in {NoneDict, EmptyDict}
    /\ ~(outcome = "Exception" /\ log[Len(log)].op = "insert_user_book")

\* C5 as claimed: when no user book exists and the response of the insert
\* carries none, the call returns without raising and sends no change of
\* status, no insert and no update of a read.
C5_AsClaimed ==
    CreateFailed =>
        /\ outcome = "returned"
        /\ Mutations = Ops("insert_user_book")

----------------------------------------------------------------------------
(* C6 *)

\* the user book the call works on: the fetched one, else the created one
Target == IF IsUserBook(fetched) THEN fetched ELSE book

\* C6 as claimed: on a user book whose edition has a page count of zero or
\* none, no insert and no update of a read is sent and the status transition
\* still applies, for every progress (to Reading below 100, to Read at 100)
\* and every prior status.
C6_AsClaimed ==
    /\ pc = "done"
    /\ outcome # "Exception"
    /\ IsUserBook(Target)
    /\ ~HasPages(Target)
    => /\ Ops("insert_user_book_read") = {}
       /\ Ops("update_user_book_read") = {}
       /\ progress_percent < 100 /\ Target.status_id # 2 => StatusChanges(2) # {}
       /\ progress_percent = 100 /\ Target.status_id # 3 => StatusChanges(3) # {}

----------------------------------------------------------------------------
(* C7, C8 *)

\* the identifier types of the argument, and the value of a type (of its
\* last object in a list)
InputTypes ==
    IF identifiers.isdict THEN DOMAIN identifiers.val
    ELSE {identifiers.val[i].type : i \in DOMAIN identifiers.val}

InputVal(t) ==
    IF identifiers.isdict THEN identifiers.val[t]
    ELSE LET at == {i \in DOMAIN identifiers.val : identifiers.val[i].type = t}
         IN  identifiers.val[CHOOSE i \in at : \A j \in at : j <= i].val

InputSlug == IF "hardcover" \in InputTypes THEN InputVal("hardcover") ELSE ""

\* C7 as claimed: when the identifiers hold neither hardcover-id nor a
\* hardcover slug, the call sends no query and no mutation and returns.
C7_AsClaimed ==
    /\ pc # "idle"
    /\ "hardcover-id" \notin InputTypes
    /\ InputSlug = ""
    => log = <<>> /\ Returned

\* C8 as claimed: no mutation is sent unless the resolved identifiers hold a
\* hardcover-id.
C8_AsClaimed ==
    Mutations # {} =>
        /\ "hardcover-id" \in DOMAIN ids
        /\ ids["hardcover-id"] # None

----------------------------------------------------------------------------
(* C9 *)

\* C9: identifiers (a dict or a list of objects) that hold neither
\* hardcover-id nor hardcover are returned by parse_identifiers filtered, with
\* no hardcover-id, and no books query is sent.
C9_NoLookupWithoutSlug ==
    /\ pc # "idle"
    /\ "hardcover-id" \notin InputTypes
    /\ "hardcover" \notin InputTypes
    => /\ Ops("books") = {}
       /\ pc # "get_book_id"
       /\ DOMAIN parsed = InputTypes \cap {"hardcover-edition", "isbn"}
       /\ \A t \in DOMAIN parsed : parsed[t] = InputVal(t)
       /\ ids = parsed

C9_Witness ==
    /\ pc = "done"
    /\ ~identifiers.isdict
    /\ "hardcover-id" \notin InputTypes
    /\ "hardcover" \notin InputTypes
    /\ DOMAIN parsed = {"isbn"}
    /\ Ops("books") = {}

----------------------------------------------------------------------------
(* C10 *)

\* the lookup of the slug has been answered with the books of the slug
LookedUp ==
    /\ pc \notin {"idle", "get_book_id"}
    /\ ~(pc = "done" /\ outcome = "Exception" /\ Len(log) = 1)

\* the ids of the editions of book b whose isbn_13 is the 13 character isbn
\* of the argument
MatchedEditions(b) ==
    {Editions[e].id : e \in
        {e \in DOMAIN Editions :
            /\ Editions[e].book_id = b
            /\ "isbn" \in InputTypes
            /\ Len(InputVal("isbn")) = 13
            /\ Editions[e].isbn_13 = InputVal("isbn")}}

\* C10: with a hardcover slug and no hardcover-id, parse_identifiers sends
\* exactly one books query; when the slug is a book's, the set returned holds
\* that book's id as hardcover-id, and the id of the edition with the given
\* 13 character isbn as hardcover-edition if there is one, else the
\* hardcover-edition of the argument if it had one.  With a hardcover-id it
\* sends no books query.
C10_SlugResolvedInOneCall ==
    pc # "idle" =>
        /\ "hardcover-id" \in InputTypes => Ops("books") = {}
        /\ "hardcover-id" \notin InputTypes /\ InputSlug # "" =>
              /\ Cardinality(Ops("books")) = 1
              /\ \A i \in DOMAIN Books :
                    Books[i].slug = InputSlug /\ LookedUp =>
                       /\ "hardcover-id" \in DOMAIN ids
                       /\ ids["hardcover-id"] = Books[i].id
                       /\ IF MatchedEditions(Books[i].id) # {}
                          THEN /\ "hardcover-edition" \in DOMAIN ids
                               /\ ids["hardcover-edition"] \in MatchedEditions(Books[i].id)
                          ELSE /\ "hardcover-edition" \in DOMAIN ids
                                     <=> "hardcover-edition" \in InputTypes
                               /\ "hardcover-edition" \in DOMAIN ids =>
                                     ids["hardcover-edition"] = InputVal("hardcover-edition")
                       /\ \A t \in DOMAIN ids \ {"hardcover-id", "hardcover-edition"} :
                             ids[t] = InputVal(t)

C10_Witness ==
    /\ pc = "done"
    /\ "hardcover-id" \notin InputTypes
    /\ "hardcover-edition" \notin InputTypes
    /\ InputSlug = "dune"
    /\ Cardinality(Ops("books")) = 1
    /\ "hardcover-edition" \in DOMAIN ids
    /\ ids["hardcover-edition"] = 11
    /\ ids["hardcover-id"] = 1

----------------------------------------------------------------------------
(* C11 *)

\* C11: parse_identifiers called again with the identifiers of the call
\* before returns the set it returned before; called with the set it returned
\* before, it returns that set unchanged and sends no request.
C11_ResolutionIsIdempotent ==
    /\ pc = "done"
    /\ outcome = "returned"
    /\ caller = "parse_identifiers"
    /\ resolved # EmptyDict
    => /\ resolved.then = "output" => log = <<>> /\ parsed = resolved.output
       /\ resolved.then = "same" => parsed = resolved.output

\* a set resolved by a books query is passed again and comes back as it is
C11_Witness ==
    /\ pc = "done"
    /\ outcome = "returned"
    /\ caller = "parse_identifiers"
    /\ resolved # EmptyDict
    /\ resolved.then = "output"
    /\ resolved.input.isdict
    /\ "hardcover-id" \notin DOMAIN resolved.input.val
    /\ "hardcover-id" \in DOMAIN resolved.output
    /\ parsed = resolved.output
    /\ log = <<>>

----------------------------------------------------------------------------
(* C12 *)

\* C12: when a request of update_reading_progress fails (non-2xx status,
\* "errors" in the response, or no book for the slug), the call ends with the
\* error raised and the failed request is the last one it has sent.
C12_FailurePropagates ==
    failed # 0 =>
        /\ pc = "done"
        /\ outcome \in {"Exception", "ValueError"}
        /\ Len(log) = failed

\* the insert of the read fails after the user book was created
C12_Witness ==
    /\ failed = 4
    /\ outcome = "Exception"
    /\ log[2].op = "user_books"
    /\ log[3].op = "insert_user_book"
    /\ log[4].op = "insert_user_book_read"
    /\ Len(user_books) = 1

----------------------------------------------------------------------------
(* C13 *)

\* C13 as stated: the get_author_info calls made for a slug, one after the
\* other, within _CACHE_TIMEOUT of the first of them send at most one request,
\* whatever the lookup found.
C13_AsClaimed ==
    \A a \in AuthorSlugs : lookups[a].requests <= 1

\* C13: the get_author_info calls made for a slug, one after the other, within
\* _CACHE_TIMEOUT of the first of them send at most one request when the
\* lookup of the first call succeeded and found an author; a slug of no
\* author is never cached.
C13_OneLookupOnceFound ==
    \A a \in AuthorSlugs :
        /\ lookups[a].first = "found" => lookups[a].requests <= 1
        /\ AuthorsResponse(a) = <<>> => a \notin DOMAIN AUTHORS_CACHE

\* a second call, one second before the entry of the first expires, is
\* answered from the cache
C13_Witness ==
    /\ lookups["frank-herbert"].first = "found"
    /\ lookups["frank-herbert"].requests = 1
    /\ now = CACHE_TIMEOUT - 1
    /\ threads[1].pc = "done"
    /\ threads[1].fn = "get_author_info"
    /\ threads[1].author = "frank-herbert"
    /\ threads[1].sent = 0
    /\ threads[1].author_info = AuthorInfoJson(Authors[1])

----------------------------------------------------------------------------
(* C14 *)

\* thread t has returned from get_other_author_books
BooksReturned(t) ==
    /\ threads[t].pc = "done"
    /\ threads[t].fn = "get_other_author_books"
    /\ threads[t].outcome = "returned"

\* C14 as stated: no list returned by get_other_author_books holds a book
\* whose slug is in the library_books of the call, the calls answered from
\* the cache included.
C14_AsClaimed ==
    \A t \in Threads :
        BooksReturned(t) =>
            \A i \in DOMAIN threads[t].books :
                threads[t].books[i].slug \notin threads[t].library_books

\* C14: a list returned by a call of get_other_author_books that sent the
\* request holds no book whose slug is in the library_books of the call; a
\* call answered from the cache returns the entry it read, a list that
\* excludes the library_books of some earlier call.
C14_ExcludedWhenFetched ==
    /\ \A t \in Threads :
          BooksReturned(t) =>
             IF threads[t].sent = 1
             THEN \A i \in DOMAIN threads[t].books :
                     threads[t].books[i].slug \notin threads[t].library_books
             ELSE threads[t].books = threads[t].cached.data
    /\ \A a \in DOMAIN AUTHORS_BOOKS_CACHE :
          \E library_books \in LibraryBooks :
             AUTHORS_BOOKS_CACHE[a].data =
                OtherBooks(AuthorsResponse(a)[1].contributions, library_books)

\* the entry of an earlier call has expired and the books are fetched again,
\* without the book of the library
C14_Witness ==
    /\ BooksReturned(1)
    /\ threads[1].sent = 1
    /\ threads[1].cached # NoneDict
    /\ Len(threads[1].cached.data) = 2
    /\ threads[1].library_books = {"dune"}
    /\ Len(threads[1].books) = 1
    /\ threads[1].books[1].slug = "dune-messiah"

----------------------------------------------------------------------------
(* C15 *)

\* C15 as stated: whatever the interleaving of the threads calling
\* get_author_info and get_other_author_books, every call whose request (if
\* it sent one) was answered returns, get_author_info with the payload of the
\* author, and every cache entry is a whole one.
C15_AsClaimed ==
    /\ \A t \in Threads :
          threads[t].pc = "done" /\ threads[t].outcome # "Exception" =>
             /\ threads[t].outcome = "returned"
             /\ threads[t].fn = "get_author_info"
                   /\ AuthorsResponse(threads[t].author) # <<>> =>
                      threads[t].author_info =
                         AuthorInfoJson(AuthorsResponse(threads[t].author)[1])
    /\ \A a \in DOMAIN AUTHORS_CACHE :
          /\ DOMAIN AUTHORS_CACHE[a] = {"data", "timestamp"}
          /\ AUTHORS_CACHE[a].data = AuthorInfoJson(AuthorsResponse(a)[1])
    /\ \A a \in DOMAIN AUTHORS_BOOKS_CACHE :
          DOMAIN AUTHORS_BOOKS_CACHE[a] = {"data", "timestamp"}

----------------------------------------------------------------------------
(* C16 *)

\* C16 as stated: whatever the interleaving of the threads calling search,
\* every request sent carries the bearer token that its own call resolved.
C16_AsClaimed ==
    \A t \in Threads :
        searches[t].posted =>
            searches[t].authorization = AuthorizationOf(searches[t].token)

----------------------------------------------------------------------------
(* C17 *)

\* C17: a search that finds no token (user, configuration, environment)
\* returns empty, sends no request and leaves the provider inactive; the
\* provider stays inactive, and every search entered after that returns
\* empty and sends no request, whatever tokens there are by then.
C17_InactiveForGood ==
    /\ deactivated => ~active
    /\ \A t \in Threads :
          LET th == searches[t]
          IN  /\ th.pc = "done" /\ th.was_active /\ th.token = "" =>
                    /\ deactivated
                    /\ th.outcome = "returned"
                    /\ th.val = <<>>
                    /\ ~th.posted
              /\ ~th.was_active =>
                    /\ deactivated
                    /\ th.pc = "done"
                    /\ th.outcome = "returned"
                    /\ th.val = <<>>
                    /\ ~th.posted

\* after the search without a token, a search of a user with a token, a
\* global token being configured too
C17_Witness ==
    /\ deactivated
    /\ search_calls = 2
    /\ config_token = "global"
    /\ searches[1].pc = "done"
    /\ ~searches[1].was_active
    /\ searches[1].user_token = "alice"
    /\ searches[1].val = <<>>
    /\ ~searches[1].posted

----------------------------------------------------------------------------
(* C18 *)

\* C18: whatever the outcome of the request, search returns a sequence and
\* raises nothing; after a transport error, a non-2xx status, a body that is
\* not JSON and a body with "errors" the sequence is empty.
C18_NothingEscapes ==
    \A t \in Threads :
        LET th == searches[t]
        IN  th.pc = "done" =>
               /\ th.outcome = "returned"
               /\ DOMAIN th.val = 1..Len(th.val)
               /\ th.response.kind \in
                     {"ConnectionError", "HTTPError", "JSONDecodeError"} =>
                        th.val = <<>>
               /\ th.response.kind = "json" /\ th.response.body.t = "dict"
                     /\ "errors" \in DOMAIN th.response.body.v => th.val = <<>>

\* the body is the JSON null: the test of line 205 raises TypeError, which
\* the last except clause turns into an empty list
C18_Witness ==
    /\ searches[1].pc = "done"
    /\ searches[1].posted
    /\ searches[1].response.kind = "json"
    /\ searches[1].response.body.t = "null"
    /\ searches[1].outcome = "returned"
    /\ searches[1].val = <<>>

----------------------------------------------------------------------------
(* C19 *)

\* a hit with a document that is a non-empty object
WellFormed(hit) ==
    /\ hit.t = "dict"
    /\ "document" \in DOMAIN hit.v
    /\ hit.v["document"].t = "dict"
    /\ DOMAIN hit.v["document"].v # {}

\* the value of data.search.results.hits when it is a sequence of hits,
\* structured or as JSON text
HitsDelivered(response) ==
    LET hits == safe_get(response.body, <<"data", "search", "results", "hits">>,
                         JNull)
    IN  IF hits.t = "list" THEN hits
        ELSE IF hits.t = "str" /\ "json" \in DOMAIN hits /\ hits.json.t = "list"
        THEN hits.json
        ELSE JNull

\* C19 as stated: a title search whose response delivers
\* data.search.results.hits as a sequence of hits returns one record per hit
\* that has a document, in the order of the response.
C19_AsClaimed ==
    \A t \in Threads :
        LET th == searches[t]
        IN  /\ th.pc = "done"
            /\ th.posted
            /\ th.query[1] # "hardcover-id"
            /\ th.response.kind = "json"
            /\ HitsDelivered(th.response).t = "list"
            => LET hits == SelectSeq(HitsDelivered(th.response).v, WellFormed)
               IN  /\ Len(th.val) = Len(hits)
                   /\ \A i \in DOMAIN hits :
                         th.val[i] = parse_title_result(hits[i])

----------------------------------------------------------------------------
(* C20 *)

\* the best ISBN of an edition: isbn_13 when not empty, else isbn_10 when not
\* empty, else ""
edition_isbn_best(edition) ==
    LET i13 == IF "isbn_13" \in DOMAIN edition.v
               THEN edition.v["isbn_13"] ELSE JNull
        i10 == IF "isbn_10" \in DOMAIN edition.v
               THEN edition.v["isbn_10"] ELSE JNull
    IN  IF Truthy(i13) THEN i13 ELSE IF Truthy(i10) THEN i10 ELSE JStr("")

\* the editions of the book of an edition search that returned records
EditionsDelivered(response) ==
    safe_get(response.body, <<"data", "books">>, JNull).v[1].v["editions"].v

\* C20 as stated: the identifiers of every record of an edition search hold
\* hardcover-id, hardcover, hardcover-edition and, as isbn, isbn_13 when the
\* edition has a non-empty one, else isbn_10 when it has a non-empty one
\* (isbn_13 being null or absent), else "".
C20_AsClaimed ==
    \A t \in Threads :
        LET th == searches[t]
        IN  /\ th.pc = "done"
            /\ th.query[1] = "hardcover-id"
            /\ th.val # <<>>
            => \A i \in DOMAIN th.val :
                  /\ DOMAIN th.val[i].identifiers =
                        {"hardcover-id", "hardcover", "hardcover-edition", "isbn"}
                  /\ th.val[i].identifiers["isbn"] =
                        edition_isbn_best(EditionsDelivered(th.response)[i])

----------------------------------------------------------------------------
(* C21 *)

\* the response of the fetch has arrived and nothing has been changed since
Fetched ==
    /\ pc # "get_user_book"
    /\ \E i \in Ops("user_books") : failed # i
    /\ Mutations = {}

\* the keys of the claim: edition id, else book id, else slug
KeyedAsClaimed(v) ==
    IF "hardcover-edition" \in DOMAIN ids
    THEN v.by = "edition_id" /\ v.query = ids["hardcover-edition"]
    ELSE IF "hardcover-id" \in DOMAIN ids
    THEN v.by = "book_id" /\ v.query = ids["hardcover-id"]
    ELSE /\ v.by = "slug"
         /\ "hardcover" \in DOMAIN ids
         /\ v.slug = ids["hardcover"]

\* C21 as stated: every call that reaches the fetch sends exactly one
\* user_books query, keyed by the edition id when the resolved set holds
\* hardcover-edition, else by the book id when it holds hardcover-id, else by
\* the slug; the first user book of the response is the one used, and no
\* second fetch follows an empty response.
C21_AsClaimed ==
    /\ pc \notin {"idle", "get_book_id"} /\ DOMAIN ids # {} =>
          Cardinality(Ops("user_books")) = 1
    /\ \A i \in Ops("user_books") :
          /\ KeyedAsClaimed(log[i].variables)
          /\ Fetched =>
                fetched = FirstUserBook(user_books, user_book_reads,
                                        log[i].variables)

----------------------------------------------------------------------------
(* C22 *)

\* the entry thread t has read from _AUTHORS_CACHE is as old as
\* _CACHE_TIMEOUT or older
Stale(t) ==
    /\ threads[t].cached # NoneDict
    /\ now - threads[t].cached.timestamp >= CACHE_TIMEOUT

\* one step of a get_author_info call of thread t, at the test of the entry
\* (line 256) and at the arrival of the response (line 273)
EvictedAndRefetched(t) ==
    LET th == threads[t]
        a == th.author
    IN  /\ th.fn = "get_author_info" /\ th.pc = "cached" /\ threads'[t].pc # "cached" =>
             IF Stale(t)
             THEN /\ a \notin DOMAIN AUTHORS_CACHE'
                  /\ threads'[t].pc = "execute"
                  /\ threads'[t].sent = 1
             ELSE th.cached # NoneDict =>
                     /\ threads'[t].pc = "done"
                     /\ threads'[t].outcome = "returned"
                     /\ threads'[t].author_info = th.cached.data
                     /\ threads'[t].sent = 0
        /\ /\ th.fn = "get_author_info"
           /\ th.pc = "execute"
           /\ threads'[t].pc = "done"
           /\ threads'[t].outcome = "returned"
           => \E authors_json \in AuthorsAnswers(a) :
                 IF authors_json # <<>>
                 THEN /\ threads'[t].author_info = AuthorInfoJson(authors_json[1])
                      /\ a \in DOMAIN AUTHORS_CACHE'
                      /\ AUTHORS_CACHE'[a] =
                            [data |-> AuthorInfoJson(authors_json[1]),
                             timestamp |-> now]
                 ELSE /\ threads'[t].author_info = NoneDict
                      /\ a \notin DOMAIN AUTHORS_CACHE'

C22_WitnessNoMatch ==
    /\ threads[1].fn = "get_author_info"
    /\ threads[1].pc = "done"
    /\ threads[1].outcome = "returned"
    /\ threads[1].cached # NoneDict
    /\ now - threads[1].cached.timestamp >= CACHE_TIMEOUT
    /\ threads[1].sent = 1
    /\ threads[1].author_info = NoneDict
    /\ "frank-herbert" \notin DOMAIN AUTHORS_CACHE

----------------------------------------------------------------------------
(* C23 *)

\* the start date the claim gives the update of read: the read's own, or
\* today when the read has none
StartKept(read) ==
    IF "started_at" \notin DOMAIN read \/ read.started_at = None
    THEN today ELSE read.started_at

\* C23 as stated: a call that completes on a user book with a page count > 0
\* and an open read inserts no read and sends one update of that read,
\* carrying the read's start date, or today when the read has none (absent
\* or null), and a finish date exactly when progress_percent is 100; below
\* 100 no change of status to Read is sent.  (The call at 100 on a user book
\* already Read, which returns at line 132, is left aside.)
C23_AsClaimed ==
    /\ Returned
    /\ HasPages(fetched)
    /\ HasOpenRead(fetched)
    /\ ~(fetched.status_id = 3 /\ progress_percent = 100)
    =>
        /\ Ops("insert_user_book_read") = {}
        /\ Cardinality(Ops("update_user_book_read")) = 1
        /\ \A j \in Ops("update_user_book_read") :
              LET v == log[j].variables
                  read == fetched.user_book_reads[1]
              IN  /\ v.readId = read.id
                  /\ v.startedAt = StartKept(read)
                  /\ v.finishedAt # None <=> progress_percent = 100
        /\ progress_percent < 100 => StatusChanges(3) = {}

----------------------------------------------------------------------------
(* C24 *)

\* the fetch found a user book whose status is Read: at 100 the call is the
\* no-op of lines 130-132
AlreadyRead == IsUserBook(fetched) /\ fetched.status_id = 3

\* C24 as stated: after a call with progress_percent 100 that completes on
\* a user book, found or created, whose edition has a page count > 0, the
\* user book has status Read on the server and no read without a finish
\* date.  (The call on a user book already Read is left aside.)
C24_AsClaimed ==
    /\ Returned
    /\ progress_percent = 100
    /\ HasPages(book)
    /\ ~AlreadyRead
    => /\ user_books[book.id].status_id = 3
       /\ OpenReadIds(user_book_reads, book.id) = {}

----------------------------------------------------------------------------
(* C25 *)

\* the call that has returned repeats the arguments of the call before, which
\* returned on the same day
SameCallAgain ==
    /\ before # EmptyDict
    /\ Returned
    /\ progress_percent = before.progress_percent
    /\ today = before.today

\* the server has carried out every mutation of the requests lg, leaving the
\* account (ub, rd): the user book inserted is found by the fetch, the status
\* is the one asked for, the read inserted is there
Applied(lg, ub, rd) ==
    \A i \in DOMAIN lg :
        /\ lg[i].op = "insert_user_book" =>
              \A k \in DOMAIN lg :
                  lg[k].op = "user_books" =>
                     MatchingUserBooks(ub, lg[k].variables) # {}
        /\ lg[i].op = "update_user_book" =>
              ub[lg[i].variables.id].status_id = lg[i].variables.status_id
        /\ lg[i].op = "insert_user_book_read" =>
              \E j \in OpenReadIds(rd, lg[i].variables.id) :
                  rd[j].progress_pages = lg[i].variables.pages

\* C25 as stated: a call that returns after a call with the same arguments
\* returned on the same day, the server having carried out the mutations of
\* both, leaves every user book with the status, and the reads with the
\* pages and the dates, that the first call left.
C25_AsClaimed ==
    /\ SameCallAgain
    /\ Applied(before.log, before.user_books, before.user_book_reads)
    /\ Applied(log, user_books, user_book_reads)
    => /\ user_books = before.user_books
       /\ user_book_reads = before.user_book_reads

----------------------------------------------------------------------------
(* C26 *)

\* C26: over the calls of update_reading_progress made one after the other
\* for a book, each after the call before has returned, on an account whose
\* user books have at most one open read each, no user book ever has more
\* than one open read: insert_user_book_read is sent only for a user book
\* fetched (or created) without an open read.
C26_OneOpenRead ==
    /\ \A i \in DOMAIN user_books :
          Cardinality(OpenReadIds(user_book_reads, i)) <= 1
    /\ Ops("insert_user_book_read") # {} =>
          /\ IsUserBook(book)
          /\ book.user_book_reads = <<>>
          /\ Cardinality(Ops("insert_user_book_read")) = 1

\* a first call on day 1 has inserted a read; the second call finds it open
\* and updates it, inserting none
C26_Witness ==
    /\ calls = 2
    /\ Returned
    /\ before.today = 1
    /\ Len(before.user_book_reads) = 1
    /\ before.user_book_reads[1].started_at = 1
    /\ before.user_book_reads[1].finished_at = None
    /\ Ops("insert_user_book_read") = {}
    /\ Ops("update_user_book_read") # {}
    /\ Len(user_book_reads) = 1
    /\ OpenReadIds(user_book_reads, 1) = {1}
    /\ user_book_reads[1].progress_pages # before.user_book_reads[1].progress_pages

----------------------------------------------------------------------------
(* C27 *)

\* thread t enters search and finds no token (lines 183-186)
FindsNoToken(t) ==
    /\ searches[t].pc = "idle"
    /\ searches'[t].pc = "done"
    /\ searches'[t].was_active
    /\ ResolveToken(searches'[t].user_token, config_token, env_token) = ""

\* thread t enters search with a token present
EntersWithToken(t) ==
    /\ searches[t].pc = "idle"
    /\ searches'[t].pc # "idle"
    /\ ResolveToken(searches'[t].user_token, config_token, env_token) # ""

\* C27: the active flag changes only in a search that finds no token (user,
\* configuration, environment), which clears it; a search that fails in any
\* other way (transport error, non-2xx status, body that is not JSON, body
\* with "errors" or without "data", malformed payload) leaves it as it was.
\* So as long as no search has found no token, a search entered with a token
\* present finds the provider active and goes on to the request.
C27_OnlyNoTokenDeactivates ==
    [][/\ active' # active =>
             /\ ~active'
             /\ \E t \in Threads : FindsNoToken(t)
       /\ \A t \in Threads :
             EntersWithToken(t) /\ ~deactivated =>
                /\ active'
                /\ searches'[t].pc = "post"]_vars

\* the second search of the provider has sent its request and got a non-2xx
\* status: it returns empty and the provider is still active
C27_Witness ==
    /\ search_calls = 2
    /\ searches[1].pc = "done"
    /\ searches[1].was_active
    /\ searches[1].posted
    /\ searches[1].response.kind = "HTTPError"
    /\ searches[1].val = <<>>
    /\ active
    /\ ~deactivated

====
